---- MODULE Spec2Model ----
(***************************************************************************)
(* Model of packages/next-rest-framework/src/utils/open-api.ts:            *)
(*   - getOrCreateOpenApiSpec / generatePaths: the OpenAPI spec store,     *)
(*     the self-probes of one aggregation pass and the persisted           *)
(*     openapi.json;                                                       *)
(*   - getPathsFromMethodHandlers: synthesis of one route's paths object.  *)
(*   - filterApiRoutes and the naming of the routes in generatePaths.      *)
(*                                                                         *)
(* JSON values are trees: an object (or array, keyed by its indexes) is a  *)
(* function from keys to trees, a scalar s is the one-key tree Leaf(s).    *)
(* Equality of trees is the deep, key-order-insensitive equality of        *)
(* lodash.isequalwith.                                                     *)
(***************************************************************************)
EXTENDS Integers, Sequences, FiniteSets, TLC

\* Number of calls of getOrCreateOpenApiSpec explored in one process.
MaxPasses == 2

\* Number of calls of getPathsFromMethodHandlers explored in one process.
MaxSynth == 2

(***************************************************************************)
(* JSON trees                                                              *)
(***************************************************************************)
Obj0 == <<>>

\* The scalar s.
Leaf(s) == ("=" :> s)

\* The value undefined.
Undef == Leaf("undefined")

IsScalar(n) == DOMAIN n = {"="}

\* An array as a tree keyed by its indexes.
Arr1(a) == ("0" :> Leaf(a))
Arr2(a, b) == ("0" :> Leaf(a)) @@ ("1" :> Leaf(b))

Has(n, k) == k \in DOMAIN n

\* { ...a, ...b }: shallow spread, the keys of b win.
Spread(a, b) == [k \in DOMAIN a \cup DOMAIN b |-> IF k \in DOMAIN b THEN b[k] ELSE a[k]]

(***************************************************************************)
(* lodash.merge(object, source): recursive, the SOURCE wins on scalars,    *)
(* objects combine key-wise, arrays combine index-wise, an undefined       *)
(* source value never replaces an existing destination value.              *)
(***************************************************************************)
RECURSIVE merge(_, _)
merge(object, source) ==
  IF IsScalar(source) THEN source
  ELSE LET base == IF IsScalar(object) THEN Obj0 ELSE object IN
       [k \in DOMAIN base \cup DOMAIN source |->
          IF k \in DOMAIN source
          THEN IF k \in DOMAIN base
               THEN IF source[k] = Undef THEN base[k] ELSE merge(base[k], source[k])
               ELSE merge(Obj0, source[k])
          ELSE base[k]]

\* JSON.parse(JSON.stringify(x)): keys whose value is undefined are dropped.
RECURSIVE JsonRoundTrip(_)
JsonRoundTrip(n) ==
  IF IsScalar(n) THEN n
  ELSE [k \in {j \in DOMAIN n : n[j] # Undef} |-> JsonRoundTrip(n[k])]

(***************************************************************************)
(* getPathsFromMethodHandlers: the declarations it is given                *)
(***************************************************************************)
\* ValidMethod (../constants).
ValidMethod == {"GET", "PUT", "POST", "DELETE", "OPTIONS", "HEAD", "PATCH"}

isValidMethod(x) == x \in ValidMethod

\* _method.toLowerCase()
toLowerCase(m) ==
  CASE m = "GET" -> "get" [] m = "PUT" -> "put" [] m = "POST" -> "post"
    [] m = "DELETE" -> "delete" [] m = "OPTIONS" -> "options"
    [] m = "HEAD" -> "head" [] m = "PATCH" -> "patch" [] OTHER -> m

\* getJsonSchema (./schemas): the JSON Schema of a declared schema.
getJsonSchema(schema) == ("$schema" :> Leaf(schema))

\* getSchemaKeys (./schemas): the keys of a declared query schema.
getSchemaKeys(query) == query

\* export const defaultResponse, as the module defines it.
DefaultResponse0 ==
  ("description" :> Leaf("unexpected")) @@
  ("content" :> ("application/json" :> ("schema" :>
      (("type" :> Leaf("object")) @@
       ("properties" :> ("message" :> ("type" :> Leaf("string"))))))))

NoInput ==
  [bodyDef |-> FALSE, body |-> "", contentTypeDef |-> FALSE, contentType |-> "",
   queryDef |-> FALSE, query |-> <<>>]

JsonBody(schema) == [NoInput EXCEPT !.bodyDef = TRUE, !.body = schema,
                                    !.contentTypeDef = TRUE, !.contentType = "application/json"]

Out(status, contentType, schema) ==
  [status |-> status, contentType |-> contentType, schema |-> schema]

\* A MethodHandler with nothing declared.
NoHandler ==
  [tagsDef |-> FALSE, tags |-> Obj0, input |-> NoInput,
   outputDef |-> FALSE, output |-> <<>>, ovDef |-> FALSE, ov |-> Obj0]

CustomDefault == ("responses" :> ("default" :> ("description" :> Leaf("custom"))))

\* The DefineEndpointsParams of the routes: an ordered list of keys
\* (Object.keys), the handler of each key, the path-level overrides.
Bundle(keys, handler, ovDef, ov) ==
  [keys |-> keys, handler |-> handler, ovDef |-> ovDef, ov |-> ov]

Bundles ==
  [ a |-> Bundle(<<"GET">>, ("GET" :> NoHandler), FALSE, Obj0),
    b |-> Bundle(<<"POST">>,
           ("POST" :> [NoHandler EXCEPT !.input = JsonBody("s1"),
                          !.outputDef = TRUE,
                          !.output = <<Out("201", "application/json", "s1")>>]),
           FALSE, Obj0),
    multi |-> Bundle(<<"openApiSpecOverrides", "GET">>,
           ("GET" :> [NoHandler EXCEPT !.input = [NoInput EXCEPT !.queryDef = TRUE, !.query = <<"q">>],
                          !.outputDef = TRUE,
                          !.output = <<Out("200", "application/json", "s1"),
                                       Out("200", "text/xml", "s2"),
                                       Out("400", "application/json", "s3")>>])
           @@ ("openApiSpecOverrides" :> NoHandler),
           TRUE, ("summary" :> Leaf("route"))),
    dflt |-> Bundle(<<"GET">>,
           ("GET" :> [NoHandler EXCEPT !.outputDef = TRUE,
                          !.output = <<Out("default", "text/xml", "s2")>>]),
           FALSE, Obj0),
    tagged |-> Bundle(<<"GET", "POST">>,
           ("GET" :> [NoHandler EXCEPT !.tagsDef = TRUE, !.tags = Arr2("t0", "t1")])
           @@ ("POST" :> [NoHandler EXCEPT !.tagsDef = TRUE, !.tags = Arr2("t0", "t1"),
                          !.ovDef = TRUE, !.ov = ("tags" :> Arr1("p0"))]),
           FALSE, Obj0),
    custom |-> Bundle(<<"GET", "POST">>,
           ("GET" :> [NoHandler EXCEPT !.outputDef = TRUE,
                          !.output = <<Out("200", "application/json", "s1")>>])
           @@ ("POST" :> [NoHandler EXCEPT !.ovDef = TRUE, !.ov = CustomDefault]),
           FALSE, Obj0) ]

\* The route strings getPathsFromMethodHandlers is called with, as characters.
SynthRoutes ==
  { <<"/", "a", "p", "i", "/", "a">>,
    <<"/", "a", "p", "i", "/", "{", "i", "d", "}", "/", "{", "x", "}">> }

RECURSIVE Join(_)
Join(cs) == IF cs = <<>> THEN "" ELSE Head(cs) \o Join(Tail(cs))

(***************************************************************************)
(* getPathsFromMethodHandlers, lines 304-397                               *)
(***************************************************************************)
\* Index of the first "}" of cs at or after position i, 0 when there is none.
RECURSIVE NextClose(_, _)
NextClose(cs, i) ==
  IF i > Len(cs) THEN 0
  ELSE IF cs[i] = "}" THEN i ELSE NextClose(cs, i + 1)

\* param.replace(/[{}]/g, '')
StripBraces(cs) == Join(SelectSeq(cs, LAMBDA ch : ch # "{" /\ ch # "}"))

\* route.match(/{([^}]+)}/g), each match with its braces removed.
RECURSIVE pathParameters(_, _)
pathParameters(cs, i) ==
  IF i > Len(cs) THEN <<>>
  ELSE IF cs[i] = "{" /\ NextClose(cs, i + 1) > i + 1
  THEN <<StripBraces(SubSeq(cs, i, NextClose(cs, i + 1)))>>
         \o pathParameters(cs, NextClose(cs, i + 1) + 1)
  ELSE pathParameters(cs, i + 1)

\* An array of trees as a tree keyed by its indexes.
ArrayOf(seq) == [k \in {ToString(i - 1) : i \in 1..Len(seq)} |->
                   seq[CHOOSE i \in 1..Len(seq) : ToString(i - 1) = k]]

PathParam(name) ==
  ("name" :> Leaf(name)) @@ ("in" :> Leaf("path")) @@ ("required" :> Leaf("true"))

QueryParam(key) == ("name" :> Leaf(key)) @@ ("in" :> Leaf("query"))

PathParams(names) == [i \in 1..Len(names) |-> PathParam(names[i])]

QueryParams(keys) == [i \in 1..Len(keys) |-> QueryParam(keys[i])]

\* One step of output.reduce: Object.assign(obj, { [status]: { content:
\* { [contentType]: { schema } } } }).
AssignResponse(obj, entry) ==
  Spread(obj, (entry.status :> ("content" :>
     (entry.contentType :> ("schema" :> getJsonSchema(entry.schema))))))

\* output?.reduce(..., {})
RECURSIVE generatedResponses(_)
generatedResponses(output) ==
  IF output = <<>> THEN Obj0
  ELSE AssignResponse(generatedResponses(SubSeq(output, 1, Len(output) - 1)),
                      output[Len(output)])

\* The operation object before the overrides are merged in (lines 329-388);
\* dr is the exported defaultResponse object as it is at this moment.
generatedOperationObject(h, route, dr) ==
  LET requestBodyContent ==
        IF h.input.bodyDef /\ h.input.contentTypeDef
        THEN (h.input.contentType :> ("schema" :> getJsonSchema(h.input.body)))
        ELSE Obj0
      responses ==
        Spread(IF h.outputDef THEN generatedResponses(h.output) ELSE Obj0,
               ("default" :> dr))
      fromPath == PathParams(pathParameters(route, 1))
      fromQuery == IF h.input.queryDef
                   THEN QueryParams(getSchemaKeys(h.input.query)) ELSE <<>>
      base == ("tags" :> (IF h.tagsDef THEN h.tags ELSE Undef)) @@
              ("requestBody" :> ("content" :> requestBodyContent)) @@
              ("responses" :> responses)
  IN IF fromPath # <<>> \/ h.input.queryDef
     THEN base @@ ("parameters" :> ArrayOf(fromPath \o fromQuery))
     ELSE base

\* The object at n[k1][k2] when merge would recurse into it, else Obj0.
ObjectAt(n, k1, k2) ==
  IF ~IsScalar(n) /\ Has(n, k1) /\ ~IsScalar(n[k1]) /\ Has(n[k1], k2)
     /\ ~IsScalar(n[k1][k2])
  THEN n[k1][k2] ELSE Obj0

\* merge(generatedOperationObject, openApiSpecOverrides) recurses into
\* responses.default, which IS the exported defaultResponse object: what
\* the overrides define there is written into the shared object.
DefaultResponseAfter(h, dr) ==
  IF h.ovDef THEN merge(dr, ObjectAt(h.ov, "responses", "default")) ELSE dr

\* ... and into tags, which IS the handler's own tags array.
TagsAfter(h) ==
  IF h.tagsDef /\ h.ovDef /\ ~IsScalar(h.ov) /\ Has(h.ov, "tags")
     /\ ~IsScalar(h.ov["tags"])
  THEN merge(h.tags, h.ov["tags"]) ELSE h.tags

\* merge(generatedOperationObject, openApiSpecOverrides)
Operation(h, route, dr) ==
  IF h.ovDef THEN merge(generatedOperationObject(h, route, dr), h.ov)
  ELSE generatedOperationObject(h, route, dr)

\* The forEach over Object.keys(methodHandlers).filter(isValidMethod):
\* acc is [item, dr, handler] after the first n keys.
RECURSIVE ForEachMethod(_, _, _, _)
ForEachMethod(bundle, route, dr0, n) ==
  IF n = 0
  THEN [item |-> IF bundle.ovDef THEN bundle.ov ELSE Obj0,
        dr |-> dr0, handler |-> bundle.handler]
  ELSE LET acc == ForEachMethod(bundle, route, dr0, n - 1)
           key == bundle.keys[n]
           h == bundle.handler[key] IN
       IF ~isValidMethod(key) THEN acc
       ELSE [item |-> Spread(acc.item, (toLowerCase(key) :> Operation(h, route, acc.dr))),
             dr |-> DefaultResponseAfter(h, acc.dr),
             handler |-> [acc.handler EXCEPT ![key].tags = TagsAfter(h)]]

\* Every operation of the returned object whose responses.default is still
\* the shared object shows that object as it is when the function returns.
SharedDefault(item, dr) ==
  [m \in DOMAIN item |->
     IF ~IsScalar(item[m]) /\ Has(item[m], "responses")
        /\ ObjectAt(item[m], "responses", "default") # Obj0
     THEN [item[m] EXCEPT !["responses"]["default"] = dr]
     ELSE item[m]]

\* The value getPathsFromMethodHandlers returns.
getPathsFromMethodHandlers(bundle, route, dr0) ==
  LET acc == ForEachMethod(bundle, route, dr0, Len(bundle.keys)) IN
  (Join(route) :> SharedDefault(acc.item, acc.dr))


(***************************************************************************)
(* generatePaths, lines 146-180: filtering and naming the route files      *)
(***************************************************************************)
\* Deepest route file explored: number of path segments below the API
\* routes directory.
MaxDepth == 3

\* s has pat at position i.
MatchesAt(s, pat, i) ==
  i + Len(pat) - 1 <= Len(s) /\ SubSeq(s, i, i + Len(pat) - 1) = pat

\* Position of the first occurrence of pat in s, 0 when there is none.
IndexOf(s, pat) ==
  IF \E i \in 1..Len(s) : MatchesAt(s, pat, i)
  THEN CHOOSE i \in 1..Len(s) :
         MatchesAt(s, pat, i) /\ \A j \in 1..(i - 1) : ~MatchesAt(s, pat, j)
  ELSE 0

\* String.prototype.includes
includes(s, pat) == IndexOf(s, pat) # 0

\* String.prototype.replace with a string pattern: the first occurrence only.
replace(s, pat, rep) ==
  IF IndexOf(s, pat) = 0 THEN s
  ELSE SubSeq(s, 1, IndexOf(s, pat) - 1) \o rep
         \o SubSeq(s, IndexOf(s, pat) + Len(pat), Len(s))

\* String.prototype.replace with the regular expression /\\/g.
replaceBackslashes(s) == [i \in 1..Len(s) |-> IF s[i] = "\\" THEN "/" ELSE s[i]]

\* str.split('/').at(-1): what follows the last "/".
RECURSIVE lastSegment(_)
lastSegment(s) ==
  IF s = <<>> \/ s[Len(s)] = "/" THEN <<>>
  ELSE lastSegment(SubSeq(s, 1, Len(s) - 1)) \o <<s[Len(s)]>>

DotTs == <<".", "t", "s">>

\* const filterApiRoutes = (file) => ... (lines 146-167)
filterApiRoutes(file, cfg) ==
  LET isCatchAllRoute == includes(file, <<".", ".", ".">>)
      isOpenApiJsonRoute == file = lastSegment(cfg.openApiJsonPath) \o DotTs
      isOpenApiYamlRoute == file = lastSegment(cfg.openApiYamlPath) \o DotTs
      isSwaggerUiRoute == file = lastSegment(cfg.swaggerUiPath) \o DotTs
  IN ~(isCatchAllRoute \/ isOpenApiJsonRoute \/ isOpenApiYamlRoute \/ isSwaggerUiRoute)

\* The .map of lines 171-180.
routeOf(file) ==
  replace(
    replace(
      replace(
        replace(
          replaceBackslashes(<<"/", "a", "p", "i", "/">> \o file),
          <<"/", "i", "n", "d", "e", "x">>, <<>>),
        <<"[">>, <<"{">>),
      <<"]">>, <<"}">>),
    DotTs, <<>>)

\* Names of directories and (without the extension) files below the API
\* routes directory.
SegmentNames ==
  { <<"u">>, <<"[", "i", "d", "]">>, <<"[", "x", "]">>,
    <<"i", "n", "d", "e", "x">>, <<"i", "n", "d", "e", "x", "e", "s">>,
    <<"a", ".", "t", "s", "v">>, <<"[", ".", ".", ".", "a", "]">>,
    <<"o", "a", ".", "j">>, <<"d">> }

RouteFiles == UNION { [1..n -> SegmentNames] : n \in 1..MaxDepth }

\* join(dir, dirent.name) with the separator of the platform (lines 127-136).
RECURSIVE join(_, _)
join(segs, sep) ==
  IF Len(segs) = 1 THEN segs[1]
  ELSE segs[1] \o <<sep>> \o join(Tail(segs), sep)

\* openApiJsonPath, openApiYamlPath, swaggerUiPath of the config.
MetaPaths(json, yaml, ui) ==
  [openApiJsonPath |-> json, openApiYamlPath |-> yaml, swaggerUiPath |-> ui]

MetaConfigs ==
  { MetaPaths(<<"/", "a", "p", "i", "/", "o", "a", ".", "j">>,
              <<"/", "a", "p", "i", "/", "o", "a", ".", "y">>,
              <<"/", "a", "p", "i", "/", "d">>),
    MetaPaths(<<"/", "a", "p", "i", "/", "d", "/", "o", "a", ".", "j">>,
              <<"/", "a", "p", "i", "/", "d", "/", "o", "a", ".", "y">>,
              <<"/", "a", "p", "i", "/", "u">>) }

NoRoute == [segs |-> <<>>, sep |-> "/", file |-> <<>>, kept |-> FALSE, route |-> <<>>]

(***************************************************************************)
(* Values the environment supplies                                         *)
(***************************************************************************)
Routes == {"a", "b"}

Calls == {"c1", "c2"}

\* The call slot used when requests arrive one after the other.
SeqCalls == {"c1"}

OPEN_API_VERSION == Leaf("3.1.0")

Op(summary, tags) == ("summary" :> Leaf(summary)) @@ ("tags" :> tags)

\* Fragments (the nextRestFrameworkPaths field) a route may report.
FragA1 == ("/api/a" :> (("get" :> Op("probed1", Arr1("p0"))) @@ ("post" :> Op("probed2", Obj0))))
FragA2 == ("/api/a" :> ("get" :> Op("probed3", Arr1("p0"))))
FragB1 == ("/api/b" :> ("post" :> Op("probed2", Obj0)))
FragBX == ("/api/a" :> ("get" :> Op("probed2", Obj0)))

FragsOf(r) == IF r = "a" THEN {FragA1, FragA2} ELSE {FragB1, FragBX}

\* config.openApiSpecOverrides: OpenAPI (JSON) data, with or without paths.
OverridePaths == ("/api/a" :> ("get" :> Op("operator", Arr2("t0", "t1"))))

CfgInfo == [pathsDef |-> FALSE, paths |-> Obj0, rest |-> ("info" :> Leaf("info"))]
CfgPaths == [pathsDef |-> TRUE, paths |-> OverridePaths, rest |-> ("info" :> Leaf("info"))]

Configs == {CfgInfo, CfgPaths}

\* const newSpec = { ...overrides, openapi: OPEN_API_VERSION, paths: <merged> }
NewSpec(cfg, mergedPaths) ==
  Spread(cfg.rest, ("openapi" :> OPEN_API_VERSION) @@ ("paths" :> mergedPaths))

\* A document written by somebody else than this process.
ForeignDoc == ("openapi" :> OPEN_API_VERSION) @@ ("paths" :> Obj0) @@ ("info" :> Leaf("foreign"))

\* The persisted openapi.json.
FileMissing == [kind |-> "missing", doc |-> Obj0]
FileCorrupt == [kind |-> "corrupt", doc |-> Obj0]
FileJson(d) == [kind |-> "json", doc |-> JsonRoundTrip(d)]

NoProbe ==
  [st |-> "idle", timer |-> "none", elapsed |-> FALSE, status |-> 0,
   result |-> "none", frag |-> Obj0]

NoSpec == [def |-> FALSE, doc |-> Obj0, alias |-> FALSE]

NoPass == [valid |-> FALSE, frag |-> [r \in Routes |-> Obj0]]

\* History: the candidate of the call before, when its write failed.
NoRetry == [due |-> FALSE, newSpec |-> Obj0]

NoCall ==
  [pc |-> "idle", specFileFound |-> FALSE, paths |-> Obj0,
   probe |-> [r \in Routes |-> NoProbe],
   listed |-> FALSE, writes |-> 0, log |-> {}, ret |-> NoSpec,
   newSpec |-> Obj0, fileAtReturn |-> FileMissing, prev |-> NoPass,
   before |-> NoSpec, env |-> "none", retry |-> NoRetry]

VARIABLES
  mode,                    \* process.env.NODE_ENV
  config,                  \* the config object (openApiSpecOverrides)
  config0,                 \* history: the config as the operator wrote it
  file,                    \* openapi.json in process.cwd()
  openApiSpec,             \* global.openApiSpec
  apiSpecGeneratedLogged,  \* global.apiSpecGeneratedLogged
  call,                    \* the calls of getOrCreateOpenApiSpec
  passes,                  \* calls started so far
  last,                    \* history: the last completed development pass
  envSince,                \* history: what outsiders did to the file since then
  defaultResponse,         \* the exported defaultResponse object
  handlers,                \* the routes' method handler declarations
  synthOut,                \* history: the calls of getPathsFromMethodHandlers
  metaCfg,                 \* the config's paths of the spec and UI endpoints
  walked                   \* the route file generatePaths looked at last

storeVars == <<mode, config, config0, file, openApiSpec, apiSpecGeneratedLogged,
               call, passes, last, envSince>>

synthVars == <<defaultResponse, handlers, synthOut>>

routeVars == <<metaCfg, walked>>

vars == <<storeVars, synthVars, routeVars>>

\* global.openApiSpec as the program sees it: after `global.openApiSpec =
\* newSpec` its paths ARE the object config.openApiSpecOverrides.paths when
\* that object exists (lodash.merge returns its first argument).
View(spec, cfgPaths) ==
  IF spec.def /\ spec.alias
  THEN [def |-> TRUE, doc |-> Spread(spec.doc, ("paths" :> cfgPaths)), alias |-> FALSE]
  ELSE [def |-> spec.def, doc |-> spec.doc, alias |-> FALSE]

GlobalSpec == View(openApiSpec, config.paths)

\* No route file looked at.
NothingWalked ==
  /\ metaCfg = CHOOSE m \in MetaConfigs : TRUE
  /\ walked = NoRoute

\* The module as loaded: nothing synthesized yet.
SynthLoaded ==
  /\ defaultResponse = DefaultResponse0
  /\ handlers = Bundles
  /\ synthOut = <<>>

Init ==
  /\ SynthLoaded
  /\ NothingWalked
  /\ mode \in {"development", "production"}
  /\ config \in Configs
  /\ config0 = config
  /\ file \in {FileMissing, FileJson(ForeignDoc),
               FileJson(NewSpec(config, merge(config.paths, Spread(FragA1, FragB1))))}
  /\ openApiSpec = NoSpec
  /\ apiSpecGeneratedLogged = FALSE
  /\ call = [c \in Calls |-> NoCall]
  /\ passes = 0
  /\ last = NoPass
  /\ envSince = "none"

(***************************************************************************)
(* getOrCreateOpenApiSpec, lines 238-247: the synchronous head of a call   *)
(***************************************************************************)
\* The file never read.
ReadSpecFileSkipped(f, spec) == spec

\* try { global.openApiSpec = JSON.parse(readFileSync(...)) } catch {}
ReadSpecFile(f, spec) ==
  IF f.kind = "json"
  THEN [def |-> TRUE, doc |-> f.doc, alias |-> FALSE]
  ELSE spec

\* apiRoutes.map(async (route) => ...): every callback runs up to its
\* `await fetch`, so every request is issued and every timer is armed
\* before generatePaths reaches `await Promise.all`.
StartProbe == [NoProbe EXCEPT !.st = "fetch", !.timer = "armed"]

\* History: what the call that begins in slot c follows.
RetryOf(c) ==
  IF call[c].pc = "failed" /\ call[c].log # {}
  THEN [due |-> TRUE, newSpec |-> call[c].newSpec]
  ELSE NoRetry

NoneInFlight == \A d \in Calls : call[d].pc # "probing"

\* A call in production mode: read the file, return global.openApiSpec.
BeginProduction(c) ==
  /\ mode = "production"
  /\ passes < MaxPasses
  /\ call[c].pc # "probing"
  /\ passes' = passes + 1
  /\ openApiSpec' = ReadSpecFile(file, openApiSpec)
  /\ call' = [call EXCEPT ![c] =
       [NoCall EXCEPT !.pc = "done",
                      !.specFileFound = (file.kind = "json"),
                      !.before = GlobalSpec,
                      !.ret = View(openApiSpec', config.paths),
                      !.fileAtReturn = file,
                      !.prev = last,
                      !.env = envSince]]
  /\ UNCHANGED <<mode, config, config0, file, apiSpecGeneratedLogged, last, envSince>>

\* A call in development mode up to `await generatePaths`: read the file,
\* list the routes directory, start every probe.
BeginDevelopment(c) ==
  /\ mode # "production"
  /\ passes < MaxPasses
  /\ call[c].pc # "probing"
  /\ passes' = passes + 1
  /\ openApiSpec' = ReadSpecFile(file, openApiSpec)
  /\ call' = [call EXCEPT ![c] =
       [NoCall EXCEPT !.pc = "probing",
                      !.specFileFound = (file.kind = "json"),
                      !.listed = TRUE,
                      !.before = GlobalSpec,
                      !.probe = [r \in Routes |-> StartProbe],
                      !.prev = last,
                      !.retry = RetryOf(c)]]
  /\ UNCHANGED <<mode, config, config0, file, apiSpecGeneratedLogged, last, envSince>>

\* readdirSync throws in getNestedApiRoutes: the error leaves the call.
BeginListingFails(c) ==
  /\ mode # "production"
  /\ passes < MaxPasses
  /\ call[c].pc # "probing"
  /\ passes' = passes + 1
  /\ openApiSpec' = ReadSpecFile(file, openApiSpec)
  /\ call' = [call EXCEPT ![c] =
       [NoCall EXCEPT !.pc = "failed",
                      !.specFileFound = (file.kind = "json"),
                      !.listed = TRUE,
                      !.before = GlobalSpec,
                      !.fileAtReturn = file,
                      !.prev = last]]
  /\ last' = NoPass
  /\ UNCHANGED <<mode, config, config0, file, apiSpecGeneratedLogged, envSince>>

(***************************************************************************)
(* generatePaths, lines 184-225: one probe                                 *)
(***************************************************************************)
Probing(c, r) == call[c].pc = "probing" /\ call[c].probe[r].st # "idle"

\* `await fetch` resolves with the response headers; clearTimeout follows.
FetchResolves(c, r) ==
  /\ Probing(c, r)
  /\ call[c].probe[r].st = "fetch"
  /\ \E status \in {200, 500} :
       call' = [call EXCEPT ![c].probe[r].st = "body",
                            ![c].probe[r].timer = "cleared",
                            ![c].probe[r].status = status]
  /\ UNCHANGED <<mode, config, config0, file, openApiSpec, apiSpecGeneratedLogged,
                 passes, last, envSince>>

\* `await fetch` rejects with a network error; the catch swallows it.
FetchFails(c, r) ==
  /\ Probing(c, r)
  /\ call[c].probe[r].st = "fetch"
  /\ call' = [call EXCEPT ![c].probe[r].st = "done",
                          ![c].probe[r].result = "neterr"]
  /\ UNCHANGED <<mode, config, config0, file, openApiSpec, apiSpecGeneratedLogged,
                 passes, last, envSince>>

\* One AbortController shared by the probes of a pass: the first timer to
\* fire aborts every pending fetch of the pass.
Elapse200SharedController(c, r) ==
  /\ Probing(c, r)
  /\ call[c].probe[r].st # "done"
  /\ ~call[c].probe[r].elapsed
  /\ call' = [call EXCEPT ![c].probe =
       [q \in Routes |->
          LET p == call[c].probe[q]
              e == IF q = r THEN [p EXCEPT !.elapsed = TRUE] ELSE p IN
          IF call[c].probe[r].timer = "armed" /\ p.st = "fetch"
          THEN [e EXCEPT !.timer = "fired", !.st = "done", !.result = "timeout"]
          ELSE e]]
  /\ UNCHANGED <<mode, config, config0, file, openApiSpec, apiSpecGeneratedLogged,
                 passes, last, envSince>>

\* 200ms have passed since the probe started.  An armed timer runs
\* controller.abort(): a pending fetch rejects and the catch swallows it.
\* A cleared timer does nothing.
Elapse200(c, r) ==
  /\ Probing(c, r)
  /\ call[c].probe[r].st # "done"
  /\ ~call[c].probe[r].elapsed
  /\ LET p == call[c].probe[r]
         q == [p EXCEPT !.elapsed = TRUE] IN
     call' = [call EXCEPT ![c].probe[r] =
       IF p.timer # "armed" THEN q
       ELSE IF p.st = "fetch"
            THEN [q EXCEPT !.timer = "fired", !.st = "done", !.result = "timeout"]
            ELSE [q EXCEPT !.timer = "fired"]]
  /\ UNCHANGED <<mode, config, config0, file, openApiSpec, apiSpecGeneratedLogged,
                 passes, last, envSince>>

\* An assignment that forgets the fragments merged so far.
MergeFragmentOverwrites(paths, frag) == frag

\* paths = { ...paths, ...data.nextRestFrameworkPaths }
MergeFragment(paths, frag) == Spread(paths, frag)

\* `await res.json()` settles: the body is not JSON (rejects), JSON without
\* the nextRestFrameworkPaths field, or JSON with a fragment.
BodyArrives(c, r) ==
  /\ Probing(c, r)
  /\ call[c].probe[r].st = "body"
  /\ \E body \in {"notjson", "nofield", "fragment"} :
     \E frag \in FragsOf(r) :
       LET p == call[c].probe[r] IN
       IF body = "notjson"
       THEN call' = [call EXCEPT ![c].probe[r].st = "done",
                                 ![c].probe[r].result = "notjson"]
       ELSE IF p.status = 200 /\ body = "fragment"
       THEN call' = [call EXCEPT ![c].probe[r].st = "done",
                                 ![c].probe[r].result = "ok",
                                 ![c].probe[r].frag = frag,
                                 ![c].paths = MergeFragment(call[c].paths, frag)]
       ELSE call' = [call EXCEPT ![c].probe[r].st = "done",
                                 ![c].probe[r].result =
                                    IF p.status # 200 THEN "non200" ELSE "nofield"]
  /\ UNCHANGED <<mode, config, config0, file, openApiSpec, apiSpecGeneratedLogged,
                 passes, last, envSince>>

(***************************************************************************)
(* getOrCreateOpenApiSpec, lines 249-284: after `await generatePaths`      *)
(***************************************************************************)
AllSettled(c) == \A r \in Routes : call[c].probe[r].st = "done"

\* merge(config.openApiSpecOverrides?.paths, paths)
MergedPaths(cfg, paths) == merge(IF cfg.pathsDef THEN cfg.paths ELSE Obj0, paths)

\* lodash.merge writes into its first argument: the config's paths object.
ConfigAfterMerge(cfg, paths) ==
  IF cfg.pathsDef THEN [cfg EXCEPT !.paths = MergedPaths(cfg, paths)] ELSE cfg

\* A comparison by reference instead: newSpec is always a new object.
SpecChangedByReference(cur, newSpec) == TRUE

\* !isEqualWith(global.openApiSpec, newSpec)
SpecChanged(cur, newSpec) == ~(cur.def /\ cur.doc = newSpec)

FoundLine(c) == IF call[c].specFileFound THEN "changed" ELSE "notfound"

\* The notice logged in every pass, whatever the flag says.
NoticeEveryPass(changed, logged) == IF changed THEN {"generated"} ELSE {"uptodate"}

\* if (!global.apiSpecGeneratedLogged) console.info(...), lines 272-279
Notice(changed, logged) ==
  IF logged THEN {} ELSE IF changed THEN {"generated"} ELSE {"uptodate"}

PassOf(c) ==
  [valid |-> TRUE, frag |-> [r \in Routes |-> call[c].probe[r].frag]]

\* The pass runs to its return statement (any write succeeds).
FinishPass(c) ==
  /\ call[c].pc = "probing"
  /\ AllSettled(c)
  /\ LET mp == MergedPaths(config, call[c].paths)
         newSpec == NewSpec(config, mp)
         cur == View(openApiSpec, mp)
         changed == SpecChanged(cur, newSpec)
         logged == apiSpecGeneratedLogged IN
     /\ config' = ConfigAfterMerge(config, call[c].paths)
     /\ file' = IF changed THEN FileJson(newSpec) ELSE file
     /\ openApiSpec' = IF changed
                       THEN [def |-> TRUE, doc |-> newSpec, alias |-> config.pathsDef]
                       ELSE openApiSpec
     /\ apiSpecGeneratedLogged' = TRUE
     /\ call' = [call EXCEPT
          ![c].pc = "done",
          ![c].probe = [r \in Routes |-> NoProbe],
          ![c].newSpec = newSpec,
          ![c].writes = IF changed THEN 1 ELSE 0,
          ![c].log = (IF changed THEN {FoundLine(c)} ELSE {}) \cup Notice(changed, logged),
          ![c].ret = View(openApiSpec', config'.paths),
          ![c].fileAtReturn = file',
          ![c].env = envSince]
  /\ last' = PassOf(c)
  /\ envSince' = "none"
  /\ UNCHANGED <<mode, config0, passes>>

\* The cache assigned before the write that throws.
FinishWriteFailsAfterAssign(c) ==
  /\ call[c].pc = "probing"
  /\ AllSettled(c)
  /\ LET mp == MergedPaths(config, call[c].paths)
         newSpec == NewSpec(config, mp)
         cur == View(openApiSpec, mp) IN
     /\ SpecChanged(cur, newSpec)
     /\ config' = ConfigAfterMerge(config, call[c].paths)
     /\ call' = [call EXCEPT
          ![c].pc = "failed",
          ![c].probe = [r \in Routes |-> NoProbe],
          ![c].newSpec = newSpec,
          ![c].log = {FoundLine(c)},
          ![c].fileAtReturn = file,
          ![c].env = envSince]
  /\ last' = NoPass
  /\ openApiSpec' = [def |-> TRUE, doc |-> call'[c].newSpec, alias |-> config.pathsDef]
  /\ UNCHANGED <<mode, config0, file, apiSpecGeneratedLogged, passes, envSince>>

\* writeFileSync throws: the error leaves the call after the first log line.
FinishWriteFails(c) ==
  /\ call[c].pc = "probing"
  /\ AllSettled(c)
  /\ LET mp == MergedPaths(config, call[c].paths)
         newSpec == NewSpec(config, mp)
         cur == View(openApiSpec, mp) IN
     /\ SpecChanged(cur, newSpec)
     /\ config' = ConfigAfterMerge(config, call[c].paths)
     /\ call' = [call EXCEPT
          ![c].pc = "failed",
          ![c].probe = [r \in Routes |-> NoProbe],
          ![c].newSpec = newSpec,
          ![c].log = {FoundLine(c)},
          ![c].fileAtReturn = file,
          ![c].env = envSince]
  /\ last' = NoPass
  /\ UNCHANGED <<mode, config0, file, openApiSpec, apiSpecGeneratedLogged, passes, envSince>>

(***************************************************************************)
(* The environment: somebody else deletes, corrupts or replaces the file   *)
(***************************************************************************)
EnvDelete ==
  /\ file.kind # "missing"
  /\ file' = FileMissing
  /\ envSince' = IF envSince = "replaced" THEN "replaced" ELSE "lost"
  /\ UNCHANGED <<mode, config, config0, openApiSpec, apiSpecGeneratedLogged, call, passes, last>>

EnvCorrupt ==
  /\ file.kind # "corrupt"
  /\ file' = FileCorrupt
  /\ envSince' = IF envSince = "replaced" THEN "replaced" ELSE "lost"
  /\ UNCHANGED <<mode, config, config0, openApiSpec, apiSpecGeneratedLogged, call, passes, last>>

EnvChange ==
  /\ file # FileJson(ForeignDoc)
  /\ file' = FileJson(ForeignDoc)
  /\ envSince' = "replaced"
  /\ UNCHANGED <<mode, config, config0, openApiSpec, apiSpecGeneratedLogged, call, passes, last>>

(***************************************************************************)
(* Requests for the spec arrive one after the other                        *)
(***************************************************************************)
StoreNext ==
  \/ \E c \in SeqCalls : NoneInFlight /\ BeginProduction(c)
  \/ \E c \in SeqCalls : NoneInFlight /\ BeginDevelopment(c)
  \/ \E c \in SeqCalls : NoneInFlight /\ BeginListingFails(c)
  \/ \E c \in Calls, r \in Routes : FetchResolves(c, r)
  \/ \E c \in Calls, r \in Routes : FetchFails(c, r)
  \/ \E c \in Calls, r \in Routes : Elapse200(c, r)
  \/ \E c \in Calls, r \in Routes : BodyArrives(c, r)
  \/ \E c \in Calls : FinishPass(c)
  \/ \E c \in Calls : FinishWriteFails(c)
  \/ NoneInFlight /\ EnvDelete
  \/ NoneInFlight /\ EnvCorrupt
  \/ NoneInFlight /\ EnvChange

Next == StoreNext /\ UNCHANGED <<synthVars, routeVars>>

Spec == Init /\ [][Next]_vars

(***************************************************************************)
(* Requests for the spec that arrive while another one is being served     *)
(***************************************************************************)
\* getOrCreateOpenApiSpec is async and takes no lock: while a call waits at
\* `await generatePaths` (line 247) the event loop serves the next request,
\* whose call runs its head (lines 238-247) at once.  The file is left
\* alone by others, no listing or write fails and every route answers
\* within the 200 ms.
OverlapInit == Init /\ mode = "development"

OverlapStoreNext ==
  \/ \E c \in Calls : BeginDevelopment(c)
  \/ \E c \in Calls, r \in Routes : FetchResolves(c, r)
  \/ \E c \in Calls, r \in Routes : BodyArrives(c, r)
  \/ \E c \in Calls : FinishPass(c)

OverlapNext == OverlapStoreNext /\ UNCHANGED <<synthVars, routeVars>>

SpecOverlap == OverlapInit /\ [][OverlapNext]_vars

(***************************************************************************)
(* Calls of getPathsFromMethodHandlers in one process                      *)
(***************************************************************************)
Synthesize(b, route) ==
  /\ Len(synthOut) < MaxSynth
  /\ LET acc == ForEachMethod(handlers[b], route, defaultResponse, Len(handlers[b].keys)) IN
     /\ defaultResponse' = acc.dr
     /\ handlers' = [handlers EXCEPT ![b].handler = acc.handler]
     /\ synthOut' = Append(synthOut,
          [bundle |-> b, route |-> route, given |-> handlers[b],
           paths |-> getPathsFromMethodHandlers(handlers[b], route, defaultResponse)])
  /\ UNCHANGED <<storeVars, routeVars>>

\* No request for the spec is served meanwhile.
SynthInit ==
  /\ SynthLoaded
  /\ NothingWalked
  /\ mode = "development"
  /\ config = CfgInfo
  /\ config0 = config
  /\ file = FileMissing
  /\ openApiSpec = NoSpec
  /\ apiSpecGeneratedLogged = FALSE
  /\ call = [c \in Calls |-> NoCall]
  /\ passes = 0
  /\ last = NoPass
  /\ envSince = "none"

SynthNext == \E b \in DOMAIN Bundles, route \in SynthRoutes : Synthesize(b, route)

SpecSynth == SynthInit /\ [][SynthNext]_vars

(***************************************************************************)
(* generatePaths on the route files of the API routes directory            *)
(***************************************************************************)
\* One file of getNestedApiRoutes' listing goes through the .filter and the
\* .map of lines 169-180.
WalkFile(segs, sep) ==
  LET file_ == join(segs, sep) \o DotTs IN
  /\ walked = NoRoute
  /\ walked' = [segs |-> segs, sep |-> sep, file |-> file_,
                kept |-> filterApiRoutes(file_, metaCfg),
                route |-> routeOf(file_)]
  /\ UNCHANGED <<metaCfg, storeVars, synthVars>>

RoutesInit ==
  /\ SynthLoaded
  /\ metaCfg \in MetaConfigs
  /\ walked = NoRoute
  /\ mode = "development"
  /\ config = CfgInfo
  /\ config0 = config
  /\ file = FileMissing
  /\ openApiSpec = NoSpec
  /\ apiSpecGeneratedLogged = FALSE
  /\ call = [c \in Calls |-> NoCall]
  /\ passes = 0
  /\ last = NoPass
  /\ envSince = "none"

RoutesNext == \E segs \in RouteFiles, sep \in {"/", "\\"} : WalkFile(segs, sep)

SpecRoutes == RoutesInit /\ [][RoutesNext]_vars

(***************************************************************************)
(* Properties of the spec store (getOrCreateOpenApiSpec)                   *)
(***************************************************************************)
Development == mode # "production"

Returned(c) == call[c].pc = "done"

DevReturned(c) == Development /\ Returned(c)

\* The routes' fragments of one pass own disjoint path keys.
DisjointFrags(f) ==
  \A r1, r2 \in Routes : r1 # r2 => DOMAIN f[r1] \cap DOMAIN f[r2] = {}

\* The pass of call c directly follows a completed pass.
Consecutive(c) == DevReturned(c) /\ call[c].prev.valid /\ last.valid

\* The candidate document built from the configuration as the operator
\* wrote it and the paths of this pass only.
FreshCandidate(c) == NewSpec(config0, MergedPaths(config0, call[c].paths))

\* C1: in development mode, after every call that returns without error the
\* content of openapi.json equals global.openApiSpec, whatever the file was
\* at the start of the call.
C1_FileEqualsCache ==
  \A c \in Calls :
    DevReturned(c) =>
      /\ call[c].fileAtReturn.kind = "json"
      /\ call[c].ret.def
      /\ call[c].fileAtReturn.doc = call[c].ret.doc

\* C2: when exactly one route's fragment differs between two consecutive
\* passes and nothing else does, the second pass writes the file exactly
\* once and the cache and the file hold the new candidate, with nothing left
\* of the earlier fragment; with or without static path overrides.
C2_ChangeReplacesWholesale ==
  \A c \in Calls :
    ( /\ Consecutive(c)
      /\ call[c].env = "none"
      /\ DisjointFrags(last.frag) /\ DisjointFrags(call[c].prev.frag)
      /\ \E r \in Routes :
           /\ last.frag[r] # Obj0 /\ call[c].prev.frag[r] # Obj0
           /\ last.frag[r] # call[c].prev.frag[r]
           /\ \A q \in Routes \ {r} : last.frag[q] = call[c].prev.frag[q] )
    => /\ call[c].writes = 1
       /\ call[c].ret.doc = FreshCandidate(c)
       /\ call[c].fileAtReturn = FileJson(FreshCandidate(c))

\* C3 as stated: when two consecutive passes see the same fragments from the
\* same routes, the second pass neither writes nor logs a generation line.
C3_IdempotentAsStated ==
  \A c \in Calls :
    (Consecutive(c) /\ last.frag = call[c].prev.frag)
    => /\ call[c].writes = 0
       /\ call[c].log \cap {"notfound", "changed", "generated"} = {}

\* C3 amended: ... provided the routes' fragments own disjoint path keys and
\* nobody replaced openapi.json by another document between the two passes.
C3_Idempotent ==
  \A c \in Calls :
    ( /\ Consecutive(c) /\ last.frag = call[c].prev.frag
      /\ DisjointFrags(last.frag)
      /\ call[c].env # "replaced" )
    => /\ call[c].writes = 0
       /\ call[c].log \cap {"notfound", "changed", "generated"} = {}

C3_Witness ==
  \E c \in Calls :
    /\ Consecutive(c) /\ last.frag = call[c].prev.frag
    /\ DisjointFrags(last.frag)
    /\ \A r \in Routes : last.frag[r] # Obj0
    /\ call[c].env = "lost"
    /\ call[c].writes = 0

\* C5: in production mode no call lists the routes directory, probes or
\* writes the file, and once a call has read the file successfully every
\* later call returns that same document whatever happens to the file.
C5_ProductionServesFirstRead ==
  \A c \in Calls :
    (mode = "production" /\ call[c].pc # "idle") =>
      /\ call[c].pc = "done"
      /\ ~call[c].listed
      /\ \A r \in Routes : call[c].probe[r].st = "idle"
      /\ call[c].writes = 0
      /\ call[c].before.def => call[c].ret = call[c].before

(***************************************************************************)
(* Properties of the probes (generatePaths)                                *)
(***************************************************************************)
InFlight(c) == call[c].pc = "probing"

Settled(c, r) == call[c].probe[r].st = "done"

Succeeded(c, r) == Settled(c, r) /\ call[c].probe[r].result = "ok"

FailureKinds == {"timeout", "neterr", "non200", "notjson", "nofield"}

Failed(c, r) == Settled(c, r) /\ call[c].probe[r].result \in FailureKinds

\* The union of the fragments of the probes of call c that succeeded.
RECURSIVE UnionOfFrags(_, _)
UnionOfFrags(c, rs) ==
  IF rs = {} THEN Obj0
  ELSE LET r == CHOOSE x \in rs : TRUE IN
       Spread(UnionOfFrags(c, rs \ {r}), call[c].probe[r].frag)

FragsSoFar(c) == [r \in Routes |-> call[c].probe[r].frag]

\* C4: every probe is bounded by its 200ms timer: once 200ms have passed
\* since the probe started and found it unsettled, the request has been
\* aborted, the route contributes nothing and the pass no longer waits for
\* it, whatever the route does.
C4_ProbeBoundedByTimer ==
  \A c \in Calls, r \in Routes :
    (InFlight(c) /\ call[c].probe[r].elapsed) =>
      /\ Settled(c, r)
      /\ call[c].probe[r].result = "timeout"
      /\ call[c].probe[r].frag = Obj0

\* C6 (state part): while generatePaths runs every probe has been started,
\* and for fragments with disjoint path keys the paths mapping is exactly
\* the union of the fragments of the probes that succeeded so far, in every
\* completion order; so it is when all have settled and paths is returned.
C6_PathsIsUnion ==
  \A c \in Calls :
    InFlight(c) =>
      /\ \A r \in Routes : call[c].probe[r].st # "idle"
      /\ DisjointFrags(FragsSoFar(c)) =>
           /\ call[c].paths = UnionOfFrags(c, Routes)
           /\ \A r \in Routes : Succeeded(c, r) =>
                \A k \in DOMAIN call[c].probe[r].frag :
                  /\ Has(call[c].paths, k)
                  /\ call[c].paths[k] = call[c].probe[r].frag[k]

\* C6 (step part): generatePaths returns only when every probe has settled.
C6_ReturnsAfterAllSettled ==
  \A c \in Calls :
    (InFlight(c) /\ call'[c].pc # "probing") => AllSettled(c)

\* C6: fan-out/fan-in of generatePaths.
C6_FanOutFanIn == []C6_PathsIsUnion /\ [][C6_ReturnsAfterAllSettled]_vars

C6_Witness ==
  \E c \in Calls :
    /\ InFlight(c) /\ AllSettled(c)
    /\ \A r \in Routes : Succeeded(c, r)
    /\ DisjointFrags(FragsSoFar(c))
    /\ Cardinality(DOMAIN call[c].paths) = 2

\* C7 (state part): a probe that failed in any way contributes nothing: the
\* keys of paths all come from probes that succeeded, and a probe that
\* succeeded has its keys in paths whatever happened to its siblings.
C7_FailureAddsNoKey ==
  \A c \in Calls :
    InFlight(c) =>
      /\ \A r \in Routes : Failed(c, r) => call[c].probe[r].frag = Obj0
      /\ \A k \in DOMAIN call[c].paths :
           \E r \in Routes : Succeeded(c, r) /\ Has(call[c].probe[r].frag, k)
      /\ \A r \in Routes : Succeeded(c, r) =>
           DOMAIN call[c].probe[r].frag \subseteq DOMAIN call[c].paths

\* C7 (step part): a step of one probe (its abort included) leaves every
\* other probe as it was, and only a step of a probe that succeeds changes
\* paths; no step of a probe makes the call fail.
C7_ProbesIndependent ==
  \A c \in Calls :
    (InFlight(c) /\ ~AllSettled(c)) =>
      /\ call'[c].pc = "probing"
      /\ \A r \in Routes :
           call'[c].probe[r] # call[c].probe[r] =>
             /\ \A q \in Routes \ {r} : call'[c].probe[q] = call[c].probe[q]
             /\ call'[c].paths # call[c].paths => call'[c].probe[r].result = "ok"

\* C7: a failing probe is never fatal and never affects its siblings.
C7_FailureIsLocal == []C7_FailureAddsNoKey /\ [][C7_ProbesIndependent]_vars

C7_Witness ==
  \E c \in Calls :
    /\ InFlight(c) /\ AllSettled(c)
    /\ call[c].probe["a"].result = "timeout"
    /\ call[c].probe["b"].result = "ok"
    /\ DOMAIN call[c].paths = DOMAIN call[c].probe["b"].frag

\* C8: where the static path overrides and the probed paths define the same
\* scalar key of an operation with different values, the candidate document
\* carries the operator's value.
C8_OperatorOverrideWins ==
  \A c \in Calls :
    (DevReturned(c) /\ config0.pathsDef) =>
      \A p \in DOMAIN config0.paths \cap DOMAIN call[c].paths :
        \A m \in DOMAIN config0.paths[p] \cap DOMAIN call[c].paths[p] :
          \A k \in DOMAIN config0.paths[p][m] \cap DOMAIN call[c].paths[p][m] :
            (IsScalar(config0.paths[p][m][k]) /\ IsScalar(call[c].paths[p][m][k]))
              => call[c].newSpec["paths"][p][m][k] = config0.paths[p][m][k]

(***************************************************************************)
(* Properties of getPathsFromMethodHandlers                                *)
(***************************************************************************)
\* The operations call number i returned, by method key of its bundle.
MethodKeys(i) ==
  {k \in DOMAIN synthOut[i].given.handler : isValidMethod(k)}

OperationOf(i, k) == synthOut[i].paths[Join(synthOut[i].route)][toLowerCase(k)]

\* n[k1][k2][k3][k4] exists and equals v.
ValueAt4(n, k1, k2, k3, k4, v) ==
  /\ ~IsScalar(n) /\ Has(n, k1)
  /\ ~IsScalar(n[k1]) /\ Has(n[k1], k2)
  /\ ~IsScalar(n[k1][k2]) /\ Has(n[k1][k2], k3)
  /\ ~IsScalar(n[k1][k2][k3]) /\ Has(n[k1][k2][k3], k4)
  /\ n[k1][k2][k3][k4] = v

\* C9: every declared output entry (of a status other than 'default', in a
\* handler without overrides) appears in the operation as
\* responses[status].content[contentType].schema, unless a later entry has
\* the identical status and contentType; entries that share a status but
\* not the content type are all present.
C9_EveryOutputPreserved ==
  \A i \in 1..Len(synthOut) : \A k \in MethodKeys(i) :
    LET h == synthOut[i].given.handler[k] IN
    (h.outputDef /\ ~h.ovDef) =>
      \A j \in 1..Len(h.output) :
        (/\ h.output[j].status # "default"
         /\ \A l \in (j + 1)..Len(h.output) :
            ~(h.output[l].status = h.output[j].status
              /\ h.output[l].contentType = h.output[j].contentType))
        => ValueAt4(OperationOf(i, k), "responses", h.output[j].status, "content",
                    h.output[j].contentType,
                    ("schema" :> getJsonSchema(h.output[j].schema)))

\* C10: in every operation of every call, responses.default is present with
\* the fixed unexpected-error description and the {message: string} schema.
C10_DefaultResponseAlways ==
  \A i \in 1..Len(synthOut) : \A k \in MethodKeys(i) :
    /\ Has(OperationOf(i, k), "responses")
    /\ Has(OperationOf(i, k)["responses"], "default")
    /\ OperationOf(i, k)["responses"]["default"] = DefaultResponse0

(***************************************************************************)
(* Properties of the route files (generatePaths, lines 146-180)            *)
(***************************************************************************)
Index == <<"i", "n", "d", "e", "x">>

\* Every "[" and "]" of a segment as "{" and "}".
Braces(seg) ==
  [i \in 1..Len(seg) |-> IF seg[i] = "[" THEN "{" ELSE IF seg[i] = "]" THEN "}" ELSE seg[i]]

RECURSIVE UrlOf(_)
UrlOf(segs) ==
  IF segs = <<>> THEN <<>>
  ELSE <<"/">> \o Braces(Head(segs)) \o UrlOf(Tail(segs))

\* The URL Next.js serves a route file under: the file's segments below
\* /api, an index file standing for its directory.
ServedAt(segs) ==
  <<"/", "a", "p", "i">>
    \o UrlOf(IF segs[Len(segs)] = Index THEN SubSeq(segs, 1, Len(segs) - 1) ELSE segs)

HasWalked == walked # NoRoute

\* C11: the URL derived for a route file is "/api/" and the relative path
\* with backslashes as slashes, only a trailing "/index" removed, every
\* "[name]" as "{name}" and only the file extension stripped.
C11_RouteIsServedUrl ==
  (HasWalked /\ walked.kept) => walked.route = ServedAt(walked.segs)

RECURSIVE PlainUrlOf(_)
PlainUrlOf(segs) ==
  IF segs = <<>> THEN <<>>
  ELSE <<"/">> \o Head(segs) \o PlainUrlOf(Tail(segs))

\* The request path that reaches the route file.
EndpointOf(segs) ==
  <<"/", "a", "p", "i">>
    \o PlainUrlOf(IF segs[Len(segs)] = Index THEN SubSeq(segs, 1, Len(segs) - 1) ELSE segs)

\* The file is the route of the JSON spec, the YAML spec or the Swagger UI.
IsMetaRoute(segs, cfg) ==
  EndpointOf(segs) \in {cfg.openApiJsonPath, cfg.openApiYamlPath, cfg.swaggerUiPath}

\* The file or one of its directories is a catch-all segment, [...name].
IsCatchAll(segs) ==
  \E k \in 1..Len(segs) : MatchesAt(segs[k], <<"[", ".", ".", ".">>, 1)

\* C18: no meta-route is probed: a route file that serves the JSON spec, the
\* YAML spec or the Swagger UI (in the API routes directory or in a
\* subdirectory of it) or that is a catch-all route is left out, and every
\* other discovered file is probed.
C18_NoMetaRouteProbed ==
  HasWalked =>
    (walked.kept <=> ~(IsMetaRoute(walked.segs, metaCfg) \/ IsCatchAll(walked.segs)))

(***************************************************************************)
(* Properties of the log lines, the config and failing passes              *)
(***************************************************************************)
Notices == {"generated", "uptodate"}

FoundLines == {"notfound", "changed"}

\* The step ends call c: it returns or throws.
Ends(c) == call[c].pc \notin {"done", "failed"} /\ call'[c].pc \in {"done", "failed"}

\* The notices of the pass that ends: at most one, only while the flag is
\* unset, which the first pass that completes sets for good.
NoticeByFirstPass(c) ==
  LET log == call'[c].log IN
  /\ Cardinality(log \cap Notices) <= 1
  /\ Cardinality(log \cap FoundLines) <= 1
  /\ (log \cap Notices # {}) =>
       (~apiSpecGeneratedLogged /\ apiSpecGeneratedLogged' /\ call'[c].pc = "done")
  /\ (call'[c].pc = "done" /\ ~apiSpecGeneratedLogged) => log \cap Notices # {}

\* The pass that ends wrote openapi.json.
Wrote(c) == call'[c].pc = "done" /\ call'[c].writes = 1

\* The pass that ends called writeFileSync: it wrote the file, or it found
\* its candidate different from the cached document and the write threw.
TriedToWrite(c) ==
  \/ Wrote(c)
  \/ /\ call'[c].pc = "failed" /\ call[c].pc = "probing"
     /\ SpecChanged(View(openApiSpec, call'[c].newSpec["paths"]), call'[c].newSpec)

\* C12 as stated: the 'No API spec found' / 'API spec changed' line is
\* emitted exactly in the passes that write the file.
C12_NoticeOnceAsStated ==
  [][ /\ (apiSpecGeneratedLogged => apiSpecGeneratedLogged')
      /\ \A c \in Calls :
           (Development /\ Ends(c)) =>
             /\ NoticeByFirstPass(c)
             /\ call'[c].log \cap FoundLines # {} <=> Wrote(c)
    ]_vars

\* C12: over a sequence of development-mode calls the notices 'API spec
\* generated successfully!' and 'API spec up to date, skipping generation.'
\* are emitted at most once in total, by the first pass that completes;
\* every later pass emits neither; a later pass that detects a change emits
\* only the 'No API spec found' / 'API spec changed' line, which is emitted
\* exactly in the passes that write or try to write the file (and the file
\* changes in no other pass).
C12_NoticeOnce ==
  [][ /\ (apiSpecGeneratedLogged => apiSpecGeneratedLogged')
      /\ \A c \in Calls :
           (Development /\ Ends(c)) =>
             /\ NoticeByFirstPass(c)
             /\ call'[c].log \cap FoundLines # {} <=> TriedToWrite(c)
             /\ file' # file => Wrote(c)
    ]_vars

\* A pass after the first completed one detects a change: it logs the
\* 'API spec changed' line and nothing else.
C12_Witness ==
  \E c \in Calls :
    /\ Development /\ passes >= 2
    /\ call[c].pc = "done" /\ call[c].prev.valid
    /\ call[c].writes = 1 /\ call[c].log = {"changed"}

\* The path keys the routes reported in a pass.
KeysOf(f) == UNION { DOMAIN f[r] : r \in Routes }

\* C13: a development pass consumes the configuration read-only:
\* config.openApiSpecOverrides.paths has the same content after any number
\* of passes as before the first, so a path reported in one pass and absent
\* in the next (and not an override of the operator) is absent from the next
\* candidate document.
C13_ConfigReadOnly ==
  /\ config = config0
  /\ \A c \in Calls :
       Consecutive(c) =>
         \A k \in KeysOf(call[c].prev.frag) \ (KeysOf(last.frag) \cup DOMAIN config0.paths) :
           k \notin DOMAIN call[c].newSpec["paths"]

\* C14: getPathsFromMethodHandlers is a pure function of (methodHandlers,
\* route): every call returns what the first call of a process would return
\* for the same arguments, and no call changes the exported defaultResponse
\* or the handler declarations it is given, also when an override defines
\* responses.default or tags.
C14_PureFunction ==
  /\ defaultResponse = DefaultResponse0
  /\ handlers = Bundles
  /\ \A i \in DOMAIN synthOut :
       synthOut[i].paths =
         getPathsFromMethodHandlers(Bundles[synthOut[i].bundle], synthOut[i].route,
                                    DefaultResponse0)

\* The step is a call of c that ends in the listing of the route files.
ListingFails(c) ==
  /\ Development /\ passes' # passes
  /\ call'[c].pc = "failed" /\ call'[c].listed

\* What fails with the listing leaves no probe, no log line, no write and
\* no change of the flag behind.
NothingDone(c) ==
  /\ \A r \in Routes : call'[c].probe[r] = NoProbe
  /\ call'[c].log = {} /\ call'[c].writes = 0
  /\ file' = file
  /\ apiSpecGeneratedLogged' = apiSpecGeneratedLogged

\* C15 as stated: ... and global.openApiSpec is the same document as before
\* the call started.
C15_ListingFailureAsStated ==
  [][ \A c \in Calls :
        ListingFails(c) => (NothingDone(c) /\ GlobalSpec' = GlobalSpec)
    ]_vars

\* C15: when the listing of the route files fails in a development pass the
\* call fails without a probe issued, openapi.json is not written, the
\* 'generation already logged' flag is unchanged and global.openApiSpec is
\* the document the call read from openapi.json or, the file being
\* unreadable, the same document as before the call started.
C15_ListingFailure ==
  [][ \A c \in Calls :
        ListingFails(c) =>
          /\ NothingDone(c)
          /\ file.kind = "json" =>
               GlobalSpec' = [def |-> TRUE, doc |-> file.doc, alias |-> FALSE]
          /\ file.kind # "json" => GlobalSpec' = GlobalSpec
    ]_vars

\* A first call of the process found openapi.json and failed in the listing.
C15_Witness ==
  \E c \in Calls :
    /\ Development /\ call[c].pc = "failed" /\ call[c].listed /\ call[c].log = {}
    /\ ~call[c].before.def /\ GlobalSpec.def

(***************************************************************************)
(* Properties of calls in flight at the same time                          *)
(***************************************************************************)
BothInFlight == \E c, d \in Calls : c # d /\ call[c].pc = "probing" /\ call[d].pc = "probing"

\* C16: aggregation passes do not overlap: no call starts (reads the file,
\* assigns global.openApiSpec, starts its probes) while another call has
\* started and not yet run to completion.
C16_PassesDoNotOverlap ==
  [][ \A c \in Calls :
        (call[c].pc # "probing" /\ call'[c].pc = "probing") => NoneInFlight
    ]_vars

\* C17: for any interleaving of development-mode calls suspended at `await
\* generatePaths` at the same time (nobody else touching the file), the
\* compare, write, cache replacement and flag update of a call are one
\* step, so when a call completes openapi.json equals global.openApiSpec,
\* the document it returns equals the candidate it aggregated, and the
\* 'generated successfully' / 'up to date' notice is emitted at most once
\* across all calls.
C17_TailIsAtomic ==
  [][ /\ (apiSpecGeneratedLogged => apiSpecGeneratedLogged')
      /\ \A c \in Calls :
           Ends(c) =>
             /\ file' = FileJson(GlobalSpec'.doc)
             /\ call'[c].ret = GlobalSpec'
             /\ call'[c].ret.def /\ call'[c].ret.doc = call'[c].newSpec
             /\ NoticeByFirstPass(c)
    ]_vars

\* The step is the end of a pass in a failing write of openapi.json.
WriteFails(c) ==
  Development /\ call[c].pc = "probing" /\ call'[c].pc = "failed"

\* The pass that ends follows one whose write failed and has built the same
\* candidate, nobody having replaced the file since.
Retries(c) ==
  /\ Development /\ Ends(c)
  /\ call'[c].retry.due /\ call'[c].retry.newSpec = call'[c].newSpec
  /\ call'[c].env # "replaced"

\* C19: when writing openapi.json fails in a development pass the call
\* fails, the cached document is not replaced by the candidate, the flag is
\* not set and no 'generated successfully' notice is emitted; the next pass
\* with the same routes (hence the same candidate) detects the difference
\* again and attempts the write again.
C19_WriteFailure ==
  [][ \A c \in Calls :
        /\ WriteFails(c) =>
             /\ GlobalSpec' = GlobalSpec
             /\ ~(GlobalSpec'.def /\ GlobalSpec'.doc = call'[c].newSpec)
             /\ apiSpecGeneratedLogged' = apiSpecGeneratedLogged
             /\ call'[c].log \cap Notices = {}
             /\ file' = file
        /\ Retries(c) =>
             /\ call'[c].log \cap FoundLines # {}
             /\ TriedToWrite(c)
    ]_vars

\* The pass after a failed write has built the same candidate and has
\* written it.
C19_Witness ==
  \E c \in Calls :
    /\ Development /\ call[c].pc = "done"
    /\ call[c].retry.due /\ call[c].retry.newSpec = call[c].newSpec
    /\ call[c].env # "replaced"
    /\ call[c].writes = 1

====
